---- MODULE Spec2Model ----
(***************************************************************************)
(* RuSwitch: wrong-keyboard-layout detection and correction.               *)
(*                                                                         *)
(* Characters are Unicode code points (naturals), words are sequences of   *)
(* code points.  Python's None is the empty sequence <<>> and an optional  *)
(* value v is <<v>>.  The empty string '' is <<>> as well.                 *)
(***************************************************************************)
EXTENDS Integers, Sequences, FiniteSets, TLC

VARIABLES
    buffer,         \* LayoutDetector._buffer
    user_words,     \* DictionaryManager._user_words: language -> set of words
    word_counts,    \* DictionaryManager._word_counts: <<language, word>> -> count
    last,           \* history: the most recent detector/dictionary call and its pre-state
    key_queue,      \* RuSwitch._key_queue: events put by the hook callback
    is_replacing,   \* Replacer.is_replacing
    undo_stack,     \* Replacer._undo_stack
    saved_clipboard,\* Replacer._saved_clipboard
    clipboard,      \* the OS clipboard (text, or None when it holds no text)
    active,         \* RuSwitch._active
    layout,         \* keyboard layout of the foreground window
    shift_pressed,  \* whether the user holds shift
    eng,            \* per execution context: its position inside replace_word
    handled,        \* history: the event _handle_key processed last and what it did
    pressed,        \* history: number of actions the user has taken
    document,       \* the persisted user document (user_words.json)
    threshold,      \* Config.auto_learn_threshold
    dlast,          \* history: the most recent DictionaryManager call and its pre-state
    now,            \* time.time(), in seconds
    elast,          \* history: the most recent Replacer call, its pre-state and output
    kword,          \* the word handed to the functions of keymap.py
    klast,          \* history: the keymap.py calls made on the word so far
    calls           \* per thread: its position inside a DictionaryManager call

detVars == <<buffer, user_words, word_counts, last>>
appVars == <<key_queue, is_replacing, undo_stack, saved_clipboard, clipboard,
             active, layout, shift_pressed, eng, handled, pressed>>
keyVars == <<kword, klast>>
histVars == <<threshold, dlast, now, elast, kword, klast, calls>>
auxVars == <<document, threshold, dlast, now, elast, kword, klast, calls>>
vars == <<buffer, user_words, word_counts, last, key_queue, is_replacing,
          undo_stack, saved_clipboard, clipboard, active, layout, shift_pressed,
          eng, handled, pressed, document, threshold, dlast, now, elast, kword, klast,
          calls>>

None == <<>>
Some(v) == <<v>>

-----------------------------------------------------------------------------
(* Bounds of the model *)

MaxBuf == 3         \* longest word buffer explored
MaxKeys == 4        \* actions of the user (key presses, switches) explored
MaxQueue == 2       \* key presses of the user waiting in the queue
MaxThreads == 1     \* replacement threads alive at once

-----------------------------------------------------------------------------
(* Characters: str.isalpha, str.isdigit, str.lower on the code points used *)

\* str.isalpha for ASCII, the letters of Latin-1, the Greek small letters,
\* the Cyrillic block (U+0482..U+0489 are not letters) and Cyrillic Supplement
IsAlpha(ch) ==
    \/ ch \in 65..90
    \/ ch \in 97..122
    \/ ch \in (192..255) \ {215, 247}
    \/ ch \in 945..969
    \/ (ch \in 1024..1279 /\ ch \notin 1154..1161)
    \/ ch \in 1280..1327

IsDigit(ch) == ch \in 48..57

\* str.lower for one character (ASCII, U+0400..U+042F)
LowerCh(ch) ==
    IF ch \in 65..90 THEN ch + 32
    ELSE IF ch \in 1040..1071 THEN ch + 32
    ELSE IF ch \in 1024..1039 THEN ch + 80
    ELSE ch

\* str.upper for one character (ASCII, U+0430..U+045F)
UpperCh(ch) ==
    IF ch \in 97..122 THEN ch - 32
    ELSE IF ch \in 1072..1103 THEN ch - 32
    ELSE IF ch \in 1104..1119 THEN ch - 80
    ELSE ch

Lower(word) == [i \in 1..Len(word) |-> LowerCh(word[i])]

\* re's \s on the code points below U+0500
IsSpace(ch) == ch \in {9, 10, 11, 12, 13, 28, 29, 30, 31, 32, 133, 160}

\* re's \w: alphanumeric or underscore
IsWordCh(ch) == IsAlpha(ch) \/ IsDigit(ch) \/ ch = 95

-----------------------------------------------------------------------------
(* keymap.py *)

\* the items of the EN_TO_RU dict literal, in source order
EN_TO_RU_items ==
    << <<113, 1081>>, <<119, 1094>>, <<101, 1091>>, <<114, 1082>>, <<116, 1077>>, <<121, 1085>>,
       <<117, 1075>>, <<105, 1096>>, <<111, 1097>>, <<112, 1079>>, <<91, 1093>>, <<93, 1098>>,
       <<97, 1092>>, <<115, 1099>>, <<100, 1074>>, <<102, 1072>>, <<103, 1087>>, <<104, 1088>>,
       <<106, 1086>>, <<107, 1083>>, <<108, 1076>>, <<59, 1078>>, <<39, 1101>>, <<122, 1103>>,
       <<120, 1095>>, <<99, 1089>>, <<118, 1084>>, <<98, 1080>>, <<110, 1090>>, <<109, 1100>>,
       <<44, 1073>>, <<46, 1102>>, <<47, 46>>, <<96, 1105>>, <<81, 1049>>, <<87, 1062>>,
       <<69, 1059>>, <<82, 1050>>, <<84, 1045>>, <<89, 1053>>, <<85, 1043>>, <<73, 1064>>,
       <<79, 1065>>, <<80, 1047>>, <<123, 1061>>, <<125, 1066>>, <<65, 1060>>, <<83, 1067>>,
       <<68, 1042>>, <<70, 1040>>, <<71, 1055>>, <<72, 1056>>, <<74, 1054>>, <<75, 1051>>,
       <<76, 1044>>, <<58, 1046>>, <<34, 1069>>, <<90, 1071>>, <<88, 1063>>, <<67, 1057>>,
       <<86, 1052>>, <<66, 1048>>, <<78, 1058>>, <<77, 1068>>, <<60, 1041>>, <<62, 1070>>,
       <<63, 44>>, <<126, 1025>> >>

\* a dict built from items: the last item with a given key wins
DictOf(items, kpos, vpos) ==
    [k \in {items[i][kpos] : i \in 1..Len(items)} |->
        LET idx == CHOOSE i \in 1..Len(items) :
                       /\ items[i][kpos] = k
                       /\ \A j \in 1..Len(items) : items[j][kpos] = k => j <= i
        IN  items[idx][vpos]]

EN_TO_RU == DictOf(EN_TO_RU_items, 1, 2)

\* a plausible slip: only the letters get a reverse entry
RU_TO_EN_lettersOnly ==
    DictOf(SelectSeq(EN_TO_RU_items, LAMBDA item : IsAlpha(item[2])), 2, 1)

\* RU_TO_EN = {v: k for k, v in EN_TO_RU.items()}
RU_TO_EN == DictOf(EN_TO_RU_items, 2, 1)

\* dict.get(ch, ch)
TableGet(table, ch) == IF ch \in DOMAIN table THEN table[ch] ELSE ch

\* a plausible slip: the direction is not looked at
remap_word_forwardOnly(word, direction) ==
    [i \in 1..Len(word) |-> TableGet(EN_TO_RU, word[i])]

remap_word(word, direction) ==
    LET table == IF direction = "en_to_ru" THEN EN_TO_RU ELSE RU_TO_EN
    IN  [i \in 1..Len(word) |-> TableGet(table, word[i])]

detect_script(word) ==
    LET has_cyrillic == \E i \in 1..Len(word) :
                            IsAlpha(word[i]) /\ word[i] \in 1024..1279
        has_latin    == \E i \in 1..Len(word) :
                            IsAlpha(word[i]) /\ word[i] \notin 1024..1279
    IN  IF has_latin /\ has_cyrillic THEN "mixed"
        ELSE IF has_latin THEN "latin"
        ELSE IF has_cyrillic THEN "cyrillic"
        ELSE "other"

-----------------------------------------------------------------------------
(* config.py: the defaults of Config *)

min_word_length == 2
auto_learn_threshold == 3

-----------------------------------------------------------------------------
(* dictionary.py *)

\* base dictionaries as loaded by _load_dicts: "ни" (U+043D U+0438), "by"
_ru_words == { <<1085, 1080>> }
_en_words == { <<98, 121>> }

Languages == {"ru", "en"}

\* the dictionary state handed to and returned by the operators below
Dict(uw, wc) == [uw |-> uw, wc |-> wc]

check(d, word, language) ==
    LET w == Lower(word)
    IN  IF language = "ru"
        THEN w \in _ru_words \/ w \in d.uw["ru"]
        ELSE w \in _en_words \/ w \in d.uw["en"]

\* dict.get(key, 0)
CountGet(wc, key) == IF key \in DOMAIN wc THEN wc[key] ELSE 0

\* d[key] = v
CountSet(wc, key, v) == [k \in DOMAIN wc \cup {key} |-> IF k = key THEN v ELSE wc[k]]

\* del d[key] / d.pop(key, None)
CountDel(wc, key) == [k \in DOMAIN wc \ {key} |-> wc[k]]

\* a plausible slip: the counter must exceed the threshold
record_word_at_strict(d, word, language, T) ==
    LET w == Lower(word)
        key == <<language, w>>
        n == CountGet(d.wc, key) + 1
    IN  IF check(d, w, language)
        THEN [d |-> d, learned |-> FALSE, saved |-> FALSE]
        ELSE IF n > T
             THEN [d |-> Dict([d.uw EXCEPT ![language] = @ \cup {w}], CountDel(d.wc, key)),
                   learned |-> TRUE, saved |-> TRUE]
             ELSE [d |-> Dict(d.uw, CountSet(d.wc, key, n)),
                   learned |-> FALSE, saved |-> TRUE]

\* a plausible slip: the early return of the counting branch skips the save
record_word_at_saveOnLearn(d, word, language, T) ==
    LET w == Lower(word)
        key == <<language, w>>
        n == CountGet(d.wc, key) + 1
    IN  IF check(d, w, language)
        THEN [d |-> d, learned |-> FALSE, saved |-> FALSE]
        ELSE IF n >= T
             THEN [d |-> Dict([d.uw EXCEPT ![language] = @ \cup {w}], CountDel(d.wc, key)),
                   learned |-> TRUE, saved |-> TRUE]
             ELSE [d |-> Dict(d.uw, CountSet(d.wc, key, n)),
                   learned |-> FALSE, saved |-> FALSE]

\* a plausible slip: the counter of a learned word is left in place
record_word_at_keepsCounter(d, word, language, T) ==
    LET w == Lower(word)
        key == <<language, w>>
        n == CountGet(d.wc, key) + 1
    IN  IF check(d, w, language)
        THEN [d |-> d, learned |-> FALSE, saved |-> FALSE]
        ELSE IF n >= T
             THEN [d |-> Dict([d.uw EXCEPT ![language] = @ \cup {w}],
                              CountSet(d.wc, key, n)),
                   learned |-> TRUE, saved |-> TRUE]
             ELSE [d |-> Dict(d.uw, CountSet(d.wc, key, n)),
                   learned |-> FALSE, saved |-> TRUE]

\* record_word with self.config.auto_learn_threshold = T at the time of the call;
\* returns [d: state after the call, learned: the return value, saved: _save_user_data ran]
record_word_at(d, word, language, T) ==
    LET w == Lower(word)
        key == <<language, w>>
        n == CountGet(d.wc, key) + 1
    IN  IF check(d, w, language)
        THEN [d |-> d, learned |-> FALSE, saved |-> FALSE]
        ELSE IF n >= T
             THEN [d |-> Dict([d.uw EXCEPT ![language] = @ \cup {w}], CountDel(d.wc, key)),
                   learned |-> TRUE, saved |-> TRUE]
             ELSE [d |-> Dict(d.uw, CountSet(d.wc, key, n)),
                   learned |-> FALSE, saved |-> TRUE]

\* record_word under the default configuration
record_word(d, word, language) == record_word_at(d, word, language, auto_learn_threshold)

\* a plausible slip: the pending counter is left in place
add_word_keepsCounter(d, word, language) ==
    LET w == Lower(word)
    IN  Dict([d.uw EXCEPT ![language] = @ \cup {w}], d.wc)

add_word(d, word, language) ==
    LET w == Lower(word)
    IN  Dict([d.uw EXCEPT ![language] = @ \cup {w}], CountDel(d.wc, <<language, w>>))

\* a plausible slip: the word is discarded as given, not lowercased
remove_word_asGiven(d, word, language) ==
    Dict([d.uw EXCEPT ![language] = @ \ {word}], d.wc)

remove_word(d, word, language) ==
    LET w == Lower(word)
    IN  Dict([d.uw EXCEPT ![language] = @ \ {w}], d.wc)

\* str < str: code point by code point, a proper prefix comes first
WordLess(a, b) ==
    \E i \in 1..(Len(a) + 1) :
        /\ \A j \in 1..(i - 1) : j <= Len(b) /\ a[j] = b[j]
        /\ i <= Len(b)
        /\ (i = Len(a) + 1 \/ a[i] < b[i])

\* sorted(words): the list of a set of words in ascending order
RECURSIVE sorted(_)
sorted(S) ==
    IF S = {} THEN <<>>
    ELSE LET first == CHOOSE x \in S : \A y \in S \ {x} : WordLess(x, y)
         IN  <<first>> \o sorted(S \ {first})

\* values of a key of the persisted JSON object: the key is absent, or holds a
\* list of strings, an object, a number, or a list with a list inside
Absent == [t |-> "absent", v |-> <<>>]
JsonList(items) == [t |-> "list", v |-> items]
JsonObject(f) == [t |-> "object", v |-> f]
JsonNumber == [t |-> "number", v |-> <<>>]
JsonNested == [t |-> "nested", v |-> <<>>]

\* the file: it does not exist, is not JSON, is JSON whose top level is an
\* array, or is a JSON object with the keys 'ru', 'en' and 'counts'
NoDocument == [kind |-> "missing", ru |-> Absent, en |-> Absent, counts |-> Absent]
TextDocument == [kind |-> "text", ru |-> Absent, en |-> Absent, counts |-> Absent]
ArrayDocument == [kind |-> "array", ru |-> Absent, en |-> Absent, counts |-> Absent]
JsonDocument(ru, en, counts) == [kind |-> "object", ru |-> ru, en |-> en, counts |-> counts]

\* the document json.dump writes for the state d
_save_user_data(d) ==
    JsonDocument(JsonList(sorted(d.uw["ru"])), JsonList(sorted(d.uw["en"])),
                 JsonObject(d.wc))

\* set(data.get(key, [])): [ok: no TypeError, v: the set]
SetOf(field) ==
    CASE field.t = "absent" -> [ok |-> TRUE, v |-> {}]
      [] field.t = "list"   -> [ok |-> TRUE, v |-> {field.v[i] : i \in 1..Len(field.v)}]
      \* a number is not iterable, a list is not hashable: TypeError
      [] field.t = "number" -> [ok |-> FALSE, v |-> {}]
      [] field.t = "nested" -> [ok |-> FALSE, v |-> {}]

\* the outcome of _load_user_data on the freshly constructed state d:
\* raised is the exception that leaves the constructor ("" when none does),
\* counts_is_dict tells whether _word_counts is a dict afterwards
Loaded(uw, wc, counts_is_dict, raised) ==
    [d |-> Dict(uw, wc), counts_is_dict |-> counts_is_dict, raised |-> raised]

_load_user_data(doc, d) ==
    IF doc.kind = "missing" THEN Loaded(d.uw, d.wc, TRUE, "")
    \* json.JSONDecodeError is caught
    ELSE IF doc.kind = "text" THEN Loaded(d.uw, d.wc, TRUE, "")
    \* a list has no .get: AttributeError is not caught
    ELSE IF doc.kind = "array" THEN Loaded(d.uw, d.wc, TRUE, "AttributeError")
    ELSE LET ru == SetOf(doc.ru)
             en == SetOf(doc.en)
         IN  IF ~ru.ok THEN Loaded(d.uw, d.wc, TRUE, "")
             ELSE IF ~en.ok
             THEN Loaded([d.uw EXCEPT !["ru"] = ru.v], d.wc, TRUE, "")
             ELSE LET uw == [d.uw EXCEPT !["ru"] = ru.v, !["en"] = en.v]
                  IN  CASE doc.counts.t = "absent" -> Loaded(uw, <<>>, TRUE, "")
                        [] doc.counts.t = "object" -> Loaded(uw, doc.counts.v, TRUE, "")
                        [] OTHER                   -> Loaded(uw, <<>>, FALSE, "")

\* __init__, lines 24-25: the state before _load_user_data runs
NewDict == Dict([l \in Languages |-> {}], <<>>)

-----------------------------------------------------------------------------
(* detector.py *)

\* _WORD_BOUNDARIES = set(' \t\n\r.,;:!?()[]{}/<>@#$%^&*+=|\\~`"')
_WORD_BOUNDARIES ==
    {32, 9, 10, 13, 46, 44, 59, 58, 33, 63, 40, 41, 91, 93, 123, 125, 47, 60, 62,
     64, 35, 36, 37, 94, 38, 42, 43, 61, 124, 92, 126, 96, 34}

NotSpace(ch) == ~IsSpace(ch)
IsPathCh(ch) == IsWordCh(ch) \/ ch = 47
IsNumCh(ch) == IsDigit(ch) \/ ch = 46 \/ ch = 44

\* word[from..] is non-empty and every character of it is in the class
\* ("S": \S, "P": [\w/], "N": [\d.,])
AllFrom(word, from, class) ==
    /\ Len(word) >= from
    /\ \A i \in from..Len(word) :
           CASE class = "S" -> NotSpace(word[i])
             [] class = "P" -> IsPathCh(word[i])
             [] class = "N" -> IsNumCh(word[i])

HasPrefix(word, p) == Len(word) >= Len(p) /\ \A i \in 1..Len(p) : word[i] = p[i]

\* re.compile(r'https?://\S+', re.IGNORECASE).fullmatch(word)
MatchUrl(word) ==
    LET w == Lower(word)
    IN  \/ HasPrefix(w, <<104, 116, 116, 112, 58, 47, 47>>) /\ AllFrom(word, 8, "S")
        \/ HasPrefix(w, <<104, 116, 116, 112, 115, 58, 47, 47>>) /\ AllFrom(word, 9, "S")

\* re.compile(r'\S+@\S+\.\S+').fullmatch(word)
MatchEmail(word) ==
    /\ AllFrom(word, 1, "S")
    /\ \E i \in 2..Len(word) : \E j \in (i + 2)..(Len(word) - 1) :
           word[i] = 64 /\ word[j] = 46

\* re.compile(r'[a-zA-Z]:\\[\S]+').fullmatch(word)
MatchWinPath(word) ==
    /\ Len(word) >= 4
    /\ word[1] \in (65..90) \cup (97..122)
    /\ word[2] = 58
    /\ word[3] = 92
    /\ AllFrom(word, 4, "S")

\* re.compile(r'/[\w/]+').fullmatch(word)
MatchUnixPath(word) ==
    /\ Len(word) >= 2
    /\ word[1] = 47
    /\ AllFrom(word, 2, "P")

\* re.compile(r'\d+[\d.,]+\d*').fullmatch(word)
MatchNumber(word) ==
    /\ Len(word) >= 2
    /\ IsDigit(word[1])
    /\ AllFrom(word, 2, "N")

_SKIP_PATTERNS(word) ==
    \/ MatchUrl(word)
    \/ MatchEmail(word)
    \/ MatchWinPath(word)
    \/ MatchUnixPath(word)
    \/ MatchNumber(word)

\* a plausible slip: short words are analysed like any other
_should_skip_anyLength(word) ==
    \/ detect_script(word) = "mixed"
    \/ \E i \in 1..Len(word) : IsDigit(word[i])
    \/ _SKIP_PATTERNS(word)

_should_skip(word) ==
    \/ Len(word) < min_word_length
    \/ detect_script(word) = "mixed"
    \/ \E i \in 1..Len(word) : IsDigit(word[i])
    \/ _SKIP_PATTERNS(word)

\* a plausible slip: the arguments of the constructor in the wrong order
CorrectionResult_swapped(original, corrected, direction) ==
    [original |-> corrected, corrected |-> original, direction |-> direction]

\* the dataclass: three fields (detector.py declares no boundary_char)
CorrectionResult(original, corrected, direction) ==
    [original |-> original, corrected |-> corrected, direction |-> direction]

\* what _analyze_buffer returns, the dictionary state it leaves, and how
\* many calls it made on the dictionary (check and record_word)
Analysis(result, d, queries) == [result |-> result, d |-> d, queries |-> queries]

\* a return None before any dictionary call
NoCorrection(d) == Analysis(None, d, 0)

\* a plausible slip: the as-typed word is not looked up before remapping
AnalyzeLatin_noTypedCheck(word, d) ==
    LET remapped == remap_word(word, "en_to_ru")
    IN  IF check(d, remapped, "ru")
        THEN Analysis(Some(CorrectionResult(word, remapped, "en_to_ru")),
                      record_word(d, remapped, "ru").d, 2)
        ELSE Analysis(None, d, 1)

\* the branch script == 'latin' of _analyze_buffer
AnalyzeLatin(word, d) ==
    LET remapped == remap_word(word, "en_to_ru")
    IN  IF check(d, word, "en")
        THEN Analysis(None, record_word(d, word, "en").d, 2)
        ELSE IF check(d, remapped, "ru")
        THEN Analysis(Some(CorrectionResult(word, remapped, "en_to_ru")),
                      record_word(d, remapped, "ru").d, 3)
        ELSE Analysis(None, d, 2)

\* the branch script == 'cyrillic' of _analyze_buffer
AnalyzeCyrillic(word, d) ==
    LET remapped == remap_word(word, "ru_to_en")
    IN  IF check(d, word, "ru")
        THEN Analysis(None, record_word(d, word, "ru").d, 2)
        ELSE IF check(d, remapped, "en")
        THEN Analysis(Some(CorrectionResult(word, remapped, "ru_to_en")),
                      record_word(d, remapped, "en").d, 3)
        ELSE Analysis(None, d, 2)

\* a plausible slip: the Cyrillic branch is missing
_analyze_buffer_latinOnly(buf, d) ==
    IF buf = <<>> THEN NoCorrection(d)
    ELSE IF _should_skip(buf) THEN NoCorrection(d)
    ELSE IF detect_script(buf) = "latin" THEN AnalyzeLatin(buf, d)
    ELSE NoCorrection(d)

\* returns [result: optional CorrectionResult, d: dictionary state after the
\* call, queries: dictionary calls made]
_analyze_buffer(buf, d) ==
    IF buf = <<>> THEN NoCorrection(d)
    ELSE IF _should_skip(buf) THEN NoCorrection(d)
    ELSE IF detect_script(buf) = "latin" THEN AnalyzeLatin(buf, d)
    ELSE IF detect_script(buf) = "cyrillic" THEN AnalyzeCyrillic(buf, d)
    ELSE NoCorrection(d)

\* a plausible slip: the buffer is cleared before it is analysed
feed_char_clearFirst(buf, d, char) ==
    IF char \in _WORD_BOUNDARIES
    THEN LET a == _analyze_buffer(<<>>, d)
         IN  [buffer |-> <<>>, result |-> a.result, d |-> a.d, queries |-> a.queries]
    ELSE [buffer |-> Append(buf, char), result |-> None, d |-> d, queries |-> 0]

\* a plausible slip: the character is put in front of the buffer
feed_char_prepends(buf, d, char) ==
    IF char \in _WORD_BOUNDARIES
    THEN LET a == _analyze_buffer(buf, d)
         IN  [buffer |-> <<>>, result |-> a.result, d |-> a.d, queries |-> a.queries]
    ELSE [buffer |-> <<char>> \o buf, result |-> None, d |-> d, queries |-> 0]

\* returns [buffer, result, d, queries]
feed_char(buf, d, char) ==
    IF char \in _WORD_BOUNDARIES
    THEN LET a == _analyze_buffer(buf, d)
         IN  [buffer |-> <<>>, result |-> a.result, d |-> a.d, queries |-> a.queries]
    ELSE [buffer |-> Append(buf, char), result |-> None, d |-> d, queries |-> 0]

\* a plausible slip: the return inside the branch skips the clear
ForceRemap_keepsBuffer(buf, direction) ==
    [buffer |-> buf,
     result |-> Some(CorrectionResult(buf, remap_word(buf, direction), direction))]

\* the body of force_check for a non-empty buffer of the given script
ForceRemap(buf, direction) ==
    [buffer |-> <<>>,
     result |-> Some(CorrectionResult(buf, remap_word(buf, direction), direction))]

\* a plausible slip: the hotkey consults the dictionary like the automatic path
force_check_viaDictionary(buf) ==
    IF buf = <<>> THEN [buffer |-> buf, result |-> None]
    ELSE IF detect_script(buf) \in {"latin", "cyrillic"}
    THEN [buffer |-> <<>>,
          result |-> _analyze_buffer(buf, Dict([l \in {"ru", "en"} |-> {}], <<>>)).result]
    ELSE [buffer |-> buf, result |-> None]

\* returns [buffer, result]
force_check(buf) ==
    IF buf = <<>> THEN [buffer |-> buf, result |-> None]
    ELSE IF detect_script(buf) = "latin" THEN ForceRemap(buf, "en_to_ru")
    ELSE IF detect_script(buf) = "cyrillic" THEN ForceRemap(buf, "ru_to_en")
    ELSE [buffer |-> buf, result |-> None]

\* a plausible slip: the buffer is left as it is
clear_buffer_keeps(buf) == buf

clear_buffer(buf) == <<>>

-----------------------------------------------------------------------------
(* replacer.py *)

UNDO_MAX == 20

\* timestamp is time.time() at the push
UndoEntry(original, corrected, timestamp) ==
    [original |-> original, corrected |-> corrected, timestamp |-> timestamp]

\* a plausible slip: the newest entry makes room instead of the oldest
UndoPush_dropsNewest(stack, entry) ==
    IF Len(stack) >= UNDO_MAX
    THEN Append(SubSeq(stack, 1, Len(stack) - 1), entry)
    ELSE Append(stack, entry)

\* deque(maxlen=UNDO_MAX).append
UndoPush(stack, entry) ==
    IF Len(stack) >= UNDO_MAX THEN Append(Tail(stack), entry) ELSE Append(stack, entry)

\* execution contexts that can run replace_word: the hotkey callback and the
\* threads started by _handle_key
Threads == 1..MaxThreads
Contexts == {0} \cup Threads
HotkeyCtx == 0

\* a context outside replace_word
IdleCtx == [pc |-> "idle", original |-> <<>>, corrected |-> <<>>,
            boundary_char |-> <<>>, n |-> 0]

\* a context about to execute the first statement of replace_word
CallCtx(original, corrected, boundary_char) ==
    [pc |-> "call", original |-> original, corrected |-> corrected,
     boundary_char |-> boundary_char, n |-> 0]

\* the context has executed is_replacing = True and not yet the finally clause
InFlight(t) == eng[t].pc \in {"save", "backspace", "set_clipboard", "paste", "restore", "finally"}

\* what the target application receives: one backspace, or the text on the
\* clipboard at the moment of ctrl+v
Delete == [op |-> "delete", text |-> <<>>]
Insert(text) == [op |-> "insert", text |-> text]
Deletes(n) == [i \in 1..n |-> Delete]

\* the text of the focused application after it received the output out:
\* a backspace removes its last character, a paste adds at its end
RECURSIVE TextAfter(_, _)
TextAfter(text, out) ==
    IF out = <<>> THEN text
    ELSE TextAfter(IF out[1].op = "delete"
                   THEN SubSeq(text, 1, Len(text) - 1)
                   ELSE text \o out[1].text,
                   Tail(out))

\* the Replacer together with the OS clipboard
Replacer(stack, flag, saved, clip) ==
    [undo_stack |-> stack, is_replacing |-> flag, saved_clipboard |-> saved,
     clipboard |-> clip]

\* a plausible slip: the boundary character is not counted
total_bs_wordOnly(original, boundary_char) == Len(original)

\* replace_word, line 77
total_bs(original, boundary_char) ==
    Len(original) + (IF boundary_char # <<>> THEN 1 ELSE 0)

\* a plausible slip: the flag is cleared on the return path only
Exit_onReturnOnly(r, out, ret) ==
    [r |-> [r EXCEPT !.is_replacing = (ret = "raised")], out |-> out, ret |-> ret,
     began |-> TRUE]

\* leaving the try block: the finally clause clears the flag.  ret is "true"
\* for return True and "raised" when an exception of keyboard.send leaves
\* the call; out is what was emitted, began tells that is_replacing was set
Exit(r, out, ret) ==
    [r |-> [r EXCEPT !.is_replacing = FALSE], out |-> out, ret |-> ret, began |-> TRUE]

\* return False before anything is touched
Refused(r) == [r |-> r, out |-> <<>>, ret |-> "false", began |-> FALSE]

\* the try block shared by replace_word and undo_last: save the clipboard,
\* send n backspaces, put text on the clipboard, send ctrl+v, restore the
\* clipboard.  fail is 0, or the number of the keyboard.send call that raises
Emit(r, n, text, fail) ==
    LET r1 == [r EXCEPT !.is_replacing = TRUE, !.saved_clipboard = r.clipboard]
        r2 == [r1 EXCEPT !.clipboard = Some(text)]
        r3 == [r2 EXCEPT !.clipboard = IF r1.saved_clipboard # None
                                       THEN r1.saved_clipboard ELSE @]
    IN  IF fail \in 1..n THEN [r |-> r1, out |-> Deletes(fail - 1), ok |-> FALSE]
        ELSE IF fail = n + 1 THEN [r |-> r2, out |-> Deletes(n), ok |-> FALSE]
        ELSE [r |-> r3, out |-> Deletes(n) \o <<Insert(r2.clipboard[1])>>, ok |-> TRUE]

\* Replacer.replace_word on win32, called at time t;
\* returns [r: state after the call, out, ret, began]
replace_word(r, original, corrected, boundary_char, t, fail) ==
    LET e == Emit(r, total_bs(original, boundary_char), corrected \o boundary_char, fail)
    IN  IF e.ok
        THEN Exit([e.r EXCEPT !.undo_stack =
                                 UndoPush(@, UndoEntry(original, corrected, t))],
                  e.out, "true")
        ELSE Exit(e.r, e.out, "raised")

\* line 116: the age in seconds beyond which an entry is not undone
UndoWindow == 30

\* a plausible slip: the age of the entry is not looked at
Expired_never(entry, t) == FALSE

\* line 116: time.time() - entry.timestamp > 30
Expired(entry, t) == t - entry.timestamp > UndoWindow

\* Replacer.undo_last on win32, called at time t
undo_last(r, t, fail) ==
    IF r.undo_stack = <<>> THEN Refused(r)
    ELSE LET entry == r.undo_stack[Len(r.undo_stack)]
         IN  IF Expired(entry, t) THEN Refused(r)
             ELSE LET popped == [r EXCEPT !.undo_stack = SubSeq(@, 1, Len(@) - 1)]
                      e == Emit(popped, Len(entry.corrected), entry.original, fail)
                  IN  Exit(e.r, e.out, IF e.ok THEN "true" ELSE "raised")

-----------------------------------------------------------------------------
(* main.py *)

\* _SHIFT_MAP, physical key -> shifted character
_SHIFT_MAP ==
    (96 :> 126) @@ (49 :> 33) @@ (50 :> 64) @@ (51 :> 35) @@ (52 :> 36) @@ (53 :> 37) @@
    (54 :> 94) @@ (55 :> 38) @@ (56 :> 42) @@ (57 :> 40) @@ (48 :> 41) @@ (45 :> 95) @@
    (61 :> 43) @@ (91 :> 123) @@ (93 :> 125) @@ (92 :> 124) @@ (59 :> 58) @@ (39 :> 34) @@
    (44 :> 60) @@ (46 :> 62) @@ (47 :> 63)

\* a plausible slip: shift changes the letters only
_translate_key_shiftLettersOnly(event_name, lay, shift_held) ==
    LET shifted == IF shift_held /\ IsAlpha(event_name)
                   THEN UpperCh(event_name) ELSE event_name
    IN  IF lay = "ru" THEN TableGet(EN_TO_RU, shifted) ELSE shifted

\* event_name is the code point of a one-character key name
_translate_key(event_name, lay, shift_held) ==
    LET shifted == IF shift_held
                   THEN IF IsAlpha(event_name) THEN UpperCh(event_name)
                        ELSE TableGet(_SHIFT_MAP, event_name)
                   ELSE event_name
    IN  IF lay = "ru" THEN TableGet(EN_TO_RU, shifted) ELSE shifted

\* key names of length one, with their character
KeyChar == [y |-> 121, b |-> 98, v |-> 118] @@ (";" :> 59) @@ ("1" :> 49)

ModifierKeys == {"ctrl", "alt", "shift", "tab", "escape", "left ctrl", "right ctrl",
                 "left alt", "right alt", "left shift", "right shift", "caps lock",
                 "left windows", "right windows"}

NavigationKeys == {"backspace", "delete", "home", "end", "left", "right", "up", "down",
                   "page up", "page down"}

\* Config.excluded_processes and the processes that can own the foreground window
excluded_processes == {"KeePass.exe", "1Password.exe", "Bitwarden.exe"}
Processes == {"notepad.exe", "KeePass.exe"}

\* the characters the user has typed into the application since the last
\* boundary or other key that is no character, once the event ev has gone
\* down (an event of keyboard.send is no typing of the user)
TypedAfter(ev) ==
    IF ev.synthetic THEN ev.span
    ELSE IF ev.name \notin DOMAIN KeyChar THEN <<>>
    ELSE LET char == _translate_key(KeyChar[ev.name], ev.at_layout, ev.shift_held)
         IN  IF char \in _WORD_BOUNDARIES THEN <<>> ELSE Append(ev.span, char)

\* an entry of _key_queue: (event.name, shift_held); synthetic marks the
\* events keyboard.send produced; at_layout is, for a key of the user that
\* stands for a character, the layout that was active when it went down;
\* span is what the user had typed since the last boundary when it went
\* down (none of the three is in the tuple the code enqueues)
KeyEvent(name, shift_held, synthetic) ==
    [name |-> name, shift_held |-> shift_held, synthetic |-> synthetic,
     at_layout |-> IF ~synthetic /\ name \in DOMAIN KeyChar THEN layout ELSE "",
     span |-> TypedAfter(IF key_queue # <<>> THEN key_queue[Len(key_queue)]
                         ELSE handled.ev)]

\* a plausible slip: the newest event goes to the front of the queue
_on_key_press_fast_toFront(queue, name, synthetic) ==
    <<KeyEvent(name, shift_pressed, synthetic)>> \o queue

\* the hook callback: capture the shift state and enqueue
_on_key_press_fast(queue, name, synthetic) ==
    Append(queue, KeyEvent(name, shift_pressed, synthetic))

\* what _handle_key does with an event, decided by its early returns
KeyOutcome(ev, proc) ==
    IF is_replacing THEN "suppressed"
    ELSE IF proc \in excluded_processes THEN "excluded"
    ELSE IF ev.name \in ModifierKeys THEN "clear"
    ELSE IF ev.name \notin DOMAIN KeyChar /\ ev.name \in NavigationKeys THEN "clear"
    ELSE IF ev.name \notin DOMAIN KeyChar /\ ev.name \notin {"space", "enter"} THEN "ignored"
    ELSE IF ~active THEN "inactive"
    ELSE "feed"

\* the character _handle_key feeds to the detector
ActualChar(ev) ==
    IF ev.name = "space" THEN 32
    ELSE IF ev.name = "enter" THEN 10
    ELSE _translate_key(KeyChar[ev.name], layout, ev.shift_held)

\* reading result.boundary_char succeeds only if the dataclass has the field
HasBoundaryChar(result) == "boundary_char" \in DOMAIN result

\* the record of a _handle_key call: the event, what was done with it, the
\* layout it read and the character it fed to the detector ("" and 0 when
\* it fed none), the result of feed_char and whether a replacement thread was
\* started
Handled(ev, outcome, result, spawned) ==
    [ev |-> ev, outcome |-> outcome, result |-> result, spawned |-> spawned,
     lay |-> IF outcome \in {"feed", "raised"} THEN layout ELSE "",
     char |-> IF outcome \in {"feed", "raised"} THEN ActualChar(ev) ELSE 0]

NoEvent ==
    Handled([name |-> "", shift_held |-> FALSE, synthetic |-> FALSE, at_layout |-> "",
             span |-> <<>>],
            "none", None, FALSE)

\* text the user copied before the session: "x"
UserClip == <<120>>

-----------------------------------------------------------------------------
(* The detector and the dictionary driven through their public calls *)

\* characters fed: b y и н Y 1 and the boundaries ' ' '.'
FeedChars == {98, 121, 1080, 1085, 89, 49, 32, 46}

\* words the settings dialog adds or removes: "yb" (en), "ин" (ru)
EditWords == { <<"en", <<121, 98>> >>, <<"ru", <<1080, 1085>> >> }

NoCall == [op |-> "init", char |-> 0, buf |-> <<>>,
           uw |-> [l \in Languages |-> {}], wc |-> <<>>, doc |-> NoDocument,
           result |-> None, queries |-> 0]

\* the record of a call: its name, argument, the state before it, its result
\* and the dictionary calls it made
Call(op, char, result) ==
    [op |-> op, char |-> char, buf |-> buffer,
     uw |-> user_words, wc |-> word_counts, doc |-> document,
     result |-> result, queries |-> 0]

\* the record of a DictionaryManager call: its name and arguments, the state
\* before it, its return value, and streak: how many record_word calls in a
\* row, this one included, were made for this word since it had no counter
DictCall(op, word, language, result, streak) ==
    [op |-> op, word |-> word, language |-> language,
     uw |-> user_words, wc |-> word_counts, result |-> result, streak |-> streak,
     counts_is_dict |-> TRUE, raised |-> ""]

NoDictCall == [op |-> "init", word |-> <<>>, language |-> "en",
               uw |-> [l \in Languages |-> {}], wc |-> <<>>, result |-> FALSE,
               streak |-> 0, counts_is_dict |-> TRUE, raised |-> ""]

\* the record of a Replacer call: its name and arguments (for undo_last the
\* words of the entry it popped), the time of the call, the undo ring before
\* it and the clipboard before it, the deletes and inserts it emitted,
\* whether is_replacing was set, how
\* it ended ("true", "false" or "raised"); top_boundary is the boundary_char
\* of the replace_word that pushed the entry now on top of the ring, when
\* that is known, and popped_boundary the same for the entry undo_last popped;
\* follows tells of an undo_last that the call before it was a replace_word
\* that returned true, and text is the end of the text of the target application
\* after a replace_word (it ended in original + boundary_char when the call
\* was made) and after an undo_last that follows one (not tracked otherwise)
EngCall(op, original, corrected, boundary_char, res, top_boundary, popped_boundary) ==
    [op |-> op, original |-> original, corrected |-> corrected,
     boundary_char |-> boundary_char, at |-> now, stack |-> undo_stack,
     clip |-> clipboard,
     out |-> res.out, began |-> res.began, ret |-> res.ret,
     top_boundary |-> top_boundary, popped_boundary |-> popped_boundary,
     text |-> IF op = "replace_word" THEN TextAfter(original \o boundary_char, res.out)
              ELSE IF elast.op = "replace_word" /\ elast.ret = "true"
              THEN TextAfter(elast.text, res.out)
              ELSE <<>>,
     follows |-> (op = "undo_last" /\ elast.op = "replace_word" /\ elast.ret = "true")]

NoEngCall == [op |-> "init", original |-> <<>>, corrected |-> <<>>,
              boundary_char |-> <<>>, at |-> 0, stack |-> <<>>, clip |-> None,
              out |-> <<>>,
              began |-> FALSE, ret |-> "", top_boundary |-> None,
              popped_boundary |-> None, text |-> <<>>, follows |-> FALSE]

\* the record of the keymap.py calls made on a word: the word they started
\* from, the directions of the remap_word calls in order, and the value of
\* the last detect_script call ("" when there was none)
NoKeymapCall == [origin |-> <<>>, directions |-> <<>>, script |-> ""]

\* no document written yet, the default configuration, the clock at 0
\* the threads that call the DictionaryManager: the processing thread
\* (_process_keys -> _handle_key -> feed_char -> _analyze_buffer) and the
\* thread of the Tk main loop, which runs the callbacks of the buttons
DictThreads == {"processing", "gui"}

\* a thread outside the DictionaryManager
IdleCall == [pc |-> "idle", language |-> "", word |-> <<>>, ru |-> <<>>, en |-> <<>>]
NoCalls == [t \in DictThreads |-> IdleCall]

InitAux ==
    /\ document = NoDocument
    /\ threshold = auto_learn_threshold
    /\ dlast = NoDictCall
    /\ now = 0
    /\ elast = NoEngCall
    /\ kword = <<>>
    /\ klast = NoKeymapCall
    /\ calls = NoCalls

\* the state after RuSwitch.__init__ (auto_mode, Replacer(), an empty queue)
InitApp ==
    /\ key_queue = <<>>
    /\ is_replacing = FALSE
    /\ undo_stack = <<>>
    /\ saved_clipboard = None
    /\ clipboard \in {None, Some(UserClip)}
    /\ active = TRUE
    /\ layout \in {"en", "ru"}
    /\ shift_pressed = FALSE
    /\ eng = [t \in Contexts |-> IdleCtx]
    /\ handled = NoEvent
    /\ pressed = 0

InitDet ==
    /\ buffer = <<>>
    /\ user_words = [l \in Languages |-> {}]
    /\ word_counts = <<>>
    /\ last = NoCall
    /\ key_queue = <<>>
    /\ is_replacing = FALSE
    /\ undo_stack = <<>>
    /\ saved_clipboard = None
    /\ clipboard = None
    /\ active = TRUE
    /\ layout = "en"
    /\ shift_pressed = FALSE
    /\ eng = [t \in Contexts |-> IdleCtx]
    /\ handled = NoEvent
    /\ pressed = 0
    /\ InitAux

FeedChar(char) ==
    /\ char \in _WORD_BOUNDARIES \/ Len(buffer) < MaxBuf
    /\ LET r == feed_char(buffer, Dict(user_words, word_counts), char)
       IN  /\ buffer' = r.buffer
           /\ user_words' = r.d.uw
           /\ word_counts' = r.d.wc
           /\ last' = [Call("feed_char", char, r.result) EXCEPT !.queries = r.queries]
           \* record_word writes the document whenever it changes the state
           /\ document' = IF r.d # Dict(user_words, word_counts)
                          THEN _save_user_data(r.d) ELSE document
    /\ UNCHANGED <<appVars, histVars>>

ForceCheck ==
    /\ LET r == force_check(buffer)
       IN  /\ buffer' = r.buffer
           /\ last' = Call("force_check", 0, r.result)
    /\ UNCHANGED <<user_words, word_counts>>
    /\ UNCHANGED <<appVars, auxVars>>

ClearBuffer ==
    /\ buffer' = clear_buffer(buffer)
    /\ last' = Call("clear_buffer", 0, None)
    /\ UNCHANGED <<user_words, word_counts>>
    /\ UNCHANGED <<appVars, auxVars>>

AddWord(language, word) ==
    /\ LET d == add_word(Dict(user_words, word_counts), word, language)
       IN  /\ user_words' = d.uw
           /\ word_counts' = d.wc
           /\ document' = _save_user_data(d)
    /\ last' = Call("add_word", 0, None)
    /\ UNCHANGED buffer
    /\ UNCHANGED <<appVars, histVars>>

RemoveWord(language, word) ==
    /\ LET d == remove_word(Dict(user_words, word_counts), word, language)
       IN  /\ user_words' = d.uw
           /\ word_counts' = d.wc
           /\ document' = _save_user_data(d)
    /\ last' = Call("remove_word", 0, None)
    /\ UNCHANGED buffer
    /\ UNCHANGED <<appVars, histVars>>

NextDet ==
    \/ \E char \in FeedChars : FeedChar(char)
    \/ ForceCheck
    \/ ClearBuffer
    \/ \E e \in EditWords : AddWord(e[1], e[2])
    \/ \E e \in EditWords : RemoveWord(e[1], e[2])

SpecDet == InitDet /\ [][NextDet]_vars

-----------------------------------------------------------------------------
(* The dictionary manager driven through its public calls, over a document *)
(* the program wrote in an earlier run (or none)                           *)

MaxThreshold == 3   \* largest auto_learn_threshold explored

\* the application at rest: nothing typed, nothing replaced
InitQuiet ==
    /\ buffer = <<>>
    /\ last = NoCall
    /\ key_queue = <<>>
    /\ is_replacing = FALSE
    /\ undo_stack = <<>>
    /\ saved_clipboard = None
    /\ active = TRUE
    /\ layout = "en"
    /\ shift_pressed = FALSE
    /\ eng = [t \in Contexts |-> IdleCtx]
    /\ handled = NoEvent
    /\ pressed = 0

\* arguments of the calls: "by" (a base word), "yb", "Yb", "ин"
DictCalls == { <<"en", <<98, 121>> >>, <<"en", <<121, 98>> >>, <<"en", <<89, 98>> >>,
               <<"ru", <<1080, 1085>> >>, <<"ru", <<121, 98>> >> }

\* documents left by an earlier run: none, or one holding the user word "yb"
StartDocuments ==
    { NoDocument,
      _save_user_data(Dict([l \in Languages |-> IF l = "en" THEN {<<121, 98>>} ELSE {}],
                           <<>>)) }

\* DictionaryManager.__init__ has run over the document
InitDict ==
    /\ InitQuiet
    /\ clipboard = None
    /\ document \in StartDocuments
    /\ threshold \in 1..MaxThreshold
    /\ LET r == _load_user_data(document, NewDict)
       IN  /\ user_words = r.d.uw
           /\ word_counts = r.d.wc
    /\ dlast = NoDictCall
    /\ now = 0
    /\ elast = NoEngCall
    /\ kword = <<>>
    /\ klast = NoKeymapCall
    /\ calls = NoCalls

\* the streak of record_word calls this call belongs to; a streak is
\* followed up to its threshold-th call
Streak(word, language) ==
    LET d == Dict(user_words, word_counts)
        key == <<language, Lower(word)>>
    IN  IF /\ dlast.op = "record_word"
           /\ <<dlast.language, Lower(dlast.word)>> = key
           /\ dlast.streak \in 1..(threshold - 1)
        THEN dlast.streak + 1
        ELSE IF ~check(d, word, language) /\ key \notin DOMAIN word_counts
        THEN 1
        ELSE 0

CallRecordWord(language, word) ==
    /\ LET r == record_word_at(Dict(user_words, word_counts), word, language, threshold)
       IN  /\ user_words' = r.d.uw
           /\ word_counts' = r.d.wc
           /\ document' = IF r.saved THEN _save_user_data(r.d) ELSE document
           /\ dlast' = DictCall("record_word", word, language, r.learned,
                                Streak(word, language))
    /\ UNCHANGED <<buffer, last, appVars, threshold, now, elast, keyVars, calls>>

CallAddWord(language, word) ==
    /\ LET d == add_word(Dict(user_words, word_counts), word, language)
       IN  /\ user_words' = d.uw
           /\ word_counts' = d.wc
           /\ document' = _save_user_data(d)
    /\ dlast' = DictCall("add_word", word, language, FALSE, 0)
    /\ UNCHANGED <<buffer, last, appVars, threshold, now, elast, keyVars, calls>>

CallRemoveWord(language, word) ==
    /\ LET d == remove_word(Dict(user_words, word_counts), word, language)
       IN  /\ user_words' = d.uw
           /\ word_counts' = d.wc
           /\ document' = _save_user_data(d)
    /\ dlast' = DictCall("remove_word", word, language, FALSE, 0)
    /\ UNCHANGED <<buffer, last, appVars, threshold, now, elast, keyVars, calls>>

NextDict ==
    \/ \E c \in DictCalls : CallRecordWord(c[1], c[2])
    \/ \E c \in DictCalls : CallAddWord(c[1], c[2])
    \/ \E c \in DictCalls : CallRemoveWord(c[1], c[2])

SpecDict == InitDict /\ [][NextDict]_vars

-----------------------------------------------------------------------------
(* The DictionaryManager called from two threads, statement by statement:
   it takes no lock *)

\* _analyze_buffer, lines 104, 109, 117, 122: if self.dictionary.check(...)
\* is true, the processing thread goes on to call record_word
DetectorCheck(language, word) ==
    /\ calls["processing"].pc = "idle"
    /\ check(Dict(user_words, word_counts), word, language)
    /\ calls' = [calls EXCEPT !["processing"] =
                    [IdleCall EXCEPT !.pc = "record", !.language = language, !.word = word]]
    /\ UNCHANGED <<detVars, appVars, document, threshold, dlast, now, elast, keyVars>>

\* record_word, lines 91-101, up to the call of _save_user_data
RecordWord ==
    /\ calls["processing"].pc = "record"
    /\ LET c == calls["processing"]
           r == record_word_at(Dict(user_words, word_counts), c.word, c.language, threshold)
       IN  /\ user_words' = r.d.uw
           /\ word_counts' = r.d.wc
           /\ calls' = [calls EXCEPT !["processing"].pc = IF r.saved THEN "save" ELSE "idle"]
    /\ UNCHANGED <<buffer, last, appVars, document, threshold, dlast, now, elast, keyVars>>

\* add_word, lines 106-109, called by do_add (settings_gui.py:262)
GuiAddWord(language, word) ==
    /\ calls["gui"].pc = "idle"
    /\ LET d == add_word(Dict(user_words, word_counts), word, language)
       IN  /\ user_words' = d.uw
           /\ word_counts' = d.wc
    /\ calls' = [calls EXCEPT !["gui"].pc = "save"]
    /\ UNCHANGED <<buffer, last, appVars, document, threshold, dlast, now, elast, keyVars>>

\* remove_word, lines 114-115, called by _remove_word (settings_gui.py:275)
GuiRemoveWord(language, word) ==
    /\ calls["gui"].pc = "idle"
    /\ LET d == remove_word(Dict(user_words, word_counts), word, language)
       IN  /\ user_words' = d.uw
           /\ word_counts' = d.wc
    /\ calls' = [calls EXCEPT !["gui"].pc = "save"]
    /\ UNCHANGED <<buffer, last, appVars, document, threshold, dlast, now, elast, keyVars>>

\* _save_user_data, lines 65-69: data holds the two sorted lists and a
\* reference to self._word_counts
SaveSnapshot(t) ==
    /\ calls[t].pc = "save"
    /\ calls' = [calls EXCEPT ![t].pc = "write",
                              ![t].ru = JsonList(sorted(user_words["ru"])),
                              ![t].en = JsonList(sorted(user_words["en"]))]
    /\ UNCHANGED <<detVars, appVars, document, threshold, dlast, now, elast, keyVars>>

\* _save_user_data, lines 70-72: open(..., 'w') and json.dump(data, f)
SaveWrite(t) ==
    /\ calls[t].pc = "write"
    /\ document' = JsonDocument(calls[t].ru, calls[t].en, JsonObject(word_counts))
    /\ calls' = [calls EXCEPT ![t] = IdleCall]
    /\ UNCHANGED <<detVars, appVars, threshold, dlast, now, elast, keyVars>>

NextShared ==
    \/ \E c \in DictCalls : DetectorCheck(c[1], c[2])
    \/ RecordWord
    \/ \E c \in DictCalls : GuiAddWord(c[1], c[2])
    \/ \E c \in DictCalls : GuiRemoveWord(c[1], c[2])
    \/ \E t \in DictThreads : SaveSnapshot(t)
    \/ \E t \in DictThreads : SaveWrite(t)

SpecShared == InitDict /\ [][NextShared]_vars

-----------------------------------------------------------------------------
(* DictionaryManager.__init__ over an arbitrary user document              *)

\* values found under 'ru' and 'en': nothing, a number, a list holding a
\* list, an empty list, the list ["yb"]
WordFields == { Absent, JsonNumber, JsonNested, JsonList(<<>>), JsonList(<< <<121, 98>> >>) }

\* values found under 'counts': nothing, a number, {}, {"en:yb": 1}
CountFields == { Absent, JsonNumber, JsonObject(<<>>),
                 JsonObject([k \in { <<"en", <<121, 98>> >> } |-> 1]) }

Documents ==
    { NoDocument, TextDocument, ArrayDocument }
    \cup { JsonDocument(ru, en, counts) :
             ru \in WordFields, en \in WordFields, counts \in CountFields }

\* the constructor has reached line 28, _load_user_data has not run yet
InitLoad ==
    /\ InitQuiet
    /\ clipboard = None
    /\ document \in Documents
    /\ threshold = auto_learn_threshold
    /\ user_words = NewDict.uw
    /\ word_counts = NewDict.wc
    /\ dlast = [NoDictCall EXCEPT !.op = "new"]
    /\ now = 0
    /\ elast = NoEngCall
    /\ kword = <<>>
    /\ klast = NoKeymapCall
    /\ calls = NoCalls

LoadUserData ==
    /\ dlast.op = "new"
    /\ LET r == _load_user_data(document, Dict(user_words, word_counts))
       IN  /\ user_words' = r.d.uw
           /\ word_counts' = r.d.wc
           /\ dlast' = [dlast EXCEPT !.op = "load",
                                     !.counts_is_dict = r.counts_is_dict,
                                     !.raised = r.raised]
    /\ UNCHANGED <<buffer, last, appVars, document, threshold, now, elast, keyVars, calls>>

NextLoad == LoadUserData

SpecLoad == InitLoad /\ [][NextLoad]_vars

-----------------------------------------------------------------------------
(* The replacement engine driven through its public calls, one at a time   *)
(* (replacer.py on win32, no keyboard hook installed)                      *)

MaxTicks == 1       \* times the clock is advanced
TickSeconds == 31   \* seconds the clock advances at a time

\* the correction replaced: "yb" by "ни"
EngOriginal == <<121, 98>>
EngCorrected == <<1085, 1080>>

\* boundary_char arguments: '' and ' '
EngBoundaries == { <<>>, <<32>> }

\* Replacer() constructed, the clipboard empty or holding the user's text
InitEng ==
    /\ InitQuiet
    /\ clipboard \in {None, Some(UserClip)}
    /\ user_words = NewDict.uw
    /\ word_counts = NewDict.wc
    /\ InitAux

ReplacerNow == Replacer(undo_stack, is_replacing, saved_clipboard, clipboard)

CallReplaceWord(boundary_char, fail) ==
    /\ fail \in 0..(total_bs(EngOriginal, boundary_char) + 1)
    /\ LET res == replace_word(ReplacerNow, EngOriginal, EngCorrected,
                               boundary_char, now, fail)
       IN  /\ undo_stack' = res.r.undo_stack
           /\ is_replacing' = res.r.is_replacing
           /\ saved_clipboard' = res.r.saved_clipboard
           /\ clipboard' = res.r.clipboard
           /\ elast' = EngCall("replace_word", EngOriginal, EngCorrected, boundary_char,
                               res,
                               IF res.ret = "true" THEN Some(boundary_char)
                               ELSE elast.top_boundary,
                               None)
    /\ UNCHANGED <<detVars, key_queue, active, layout, shift_pressed, eng, handled,
                   pressed, document, threshold, dlast, now, keyVars, calls>>

CallUndoLast(fail) ==
    /\ LET res == undo_last(ReplacerNow, now, fail)
           top == IF undo_stack = <<>> THEN UndoEntry(<<>>, <<>>, 0)
                  ELSE undo_stack[Len(undo_stack)]
       IN  /\ fail \in 0..(IF res.began THEN Len(top.corrected) + 1 ELSE 0)
           /\ undo_stack' = res.r.undo_stack
           /\ is_replacing' = res.r.is_replacing
           /\ saved_clipboard' = res.r.saved_clipboard
           /\ clipboard' = res.r.clipboard
           /\ elast' = IF res.began
                       THEN EngCall("undo_last", top.original, top.corrected, <<>>,
                                    res, None, elast.top_boundary)
                       ELSE EngCall("undo_last", <<>>, <<>>, <<>>,
                                    res, elast.top_boundary, None)
    /\ UNCHANGED <<detVars, key_queue, active, layout, shift_pressed, eng, handled,
                   pressed, document, threshold, dlast, now, keyVars, calls>>

\* time passes between two calls
Tick ==
    /\ now < MaxTicks * TickSeconds
    /\ now' = now + TickSeconds
    /\ UNCHANGED <<detVars, appVars, document, threshold, dlast, elast, keyVars, calls>>

NextEng ==
    \/ \E b \in EngBoundaries, fail \in 0..4 : CallReplaceWord(b, fail)
    \/ \E fail \in 0..3 : CallUndoLast(fail)
    \/ Tick

SpecEng == InitEng /\ [][NextEng]_vars

-----------------------------------------------------------------------------
(* keymap.py: remap_word and detect_script applied to a word               *)

MaxWord == 2        \* longest word built from SampleChars
MaxRemaps == 2      \* remap_word calls made in a row

\* every character of the tables, and '1', ' ', U+00E9, the Greek alpha,
\* the Ukrainian i (U+0456) and U+0500
KeymapChars == DOMAIN EN_TO_RU \cup DOMAIN RU_TO_EN \cup {49, 32, 233, 945, 1110, 1280}

\* characters of the longer words: y . 1, the Cyrillic en, the Greek alpha
SampleChars == {121, 46, 49, 1085, 945}

KeymapWords ==
    {<<>>} \cup { <<c>> : c \in KeymapChars }
    \cup UNION { [1..n -> SampleChars] : n \in 2..MaxWord }

InitKeymap ==
    /\ InitQuiet
    /\ clipboard = None
    /\ user_words = NewDict.uw
    /\ word_counts = NewDict.wc
    /\ document = NoDocument
    /\ threshold = auto_learn_threshold
    /\ dlast = NoDictCall
    /\ now = 0
    /\ elast = NoEngCall
    /\ kword \in KeymapWords
    /\ klast = [NoKeymapCall EXCEPT !.origin = kword]
    /\ calls = NoCalls

\* kword = remap_word(kword, direction)
RemapWord(direction) ==
    /\ Len(klast.directions) < MaxRemaps
    /\ kword' = remap_word(kword, direction)
    /\ klast' = [klast EXCEPT !.directions = Append(@, direction), !.script = ""]
    /\ UNCHANGED <<detVars, appVars, document, threshold, dlast, now, elast, calls>>

\* detect_script(kword)
DetectScript ==
    /\ klast.script = ""
    /\ klast' = [klast EXCEPT !.script = detect_script(kword)]
    /\ UNCHANGED <<detVars, appVars, document, threshold, dlast, now, elast, kword, calls>>

NextKeymap ==
    \/ \E direction \in {"en_to_ru", "ru_to_en"} : RemapWord(direction)
    \/ DetectScript

SpecKeymap == InitKeymap /\ [][NextKeymap]_vars

-----------------------------------------------------------------------------
(* The application: hook callback, processing thread, hotkey callback and  *)
(* replacement contexts (main.py, replacer.py on win32)                    *)

\* keys the user presses besides the manual hotkey
UserKeys == {"y", "b", "space"}

Init ==
    /\ buffer = <<>>
    /\ user_words = [l \in Languages |-> {}]
    /\ word_counts = <<>>
    /\ last = NoCall
    /\ InitApp
    /\ InitAux

\* the user presses a key: the hook callback enqueues it
PressKey(name) ==
    /\ pressed < MaxKeys
    /\ Len(key_queue) < MaxQueue
    /\ pressed' = pressed + 1
    /\ key_queue' = _on_key_press_fast(key_queue, name, FALSE)
    /\ UNCHANGED <<detVars, auxVars, is_replacing, undo_stack, saved_clipboard, clipboard,
                   active, layout, shift_pressed, eng, handled>>

\* the user switches the keyboard layout of the foreground window (language bar)
SwitchLayout ==
    /\ pressed < MaxKeys
    /\ pressed' = pressed + 1
    /\ layout' = IF layout = "en" THEN "ru" ELSE "en"
    /\ UNCHANGED <<detVars, auxVars, key_queue, is_replacing, undo_stack, saved_clipboard,
                   clipboard, active, shift_pressed, eng, handled>>

\* RuSwitch._toggle, from the tray menu
Toggle ==
    /\ pressed < MaxKeys
    /\ pressed' = pressed + 1
    /\ active' = ~active
    /\ UNCHANGED <<detVars, auxVars, key_queue, is_replacing, undo_stack, saved_clipboard,
                   clipboard, layout, shift_pressed, eng, handled>>

\* a plausible slip: every press of the hotkey runs its callback on a thread
\* of its own, whether or not the callback before it has returned
ManualRemap_ownThread ==
    /\ pressed < MaxKeys
    /\ Len(key_queue) < MaxQueue
    /\ pressed' = pressed + 1
    /\ key_queue' = _on_key_press_fast(key_queue, "insert", FALSE)
    /\ LET r == force_check(buffer)
       IN  /\ buffer' = r.buffer
           /\ IF r.result # None
              THEN \E t \in Contexts :
                      /\ eng[t].pc = "idle"
                      /\ eng' = [eng EXCEPT ![t] =
                                   CallCtx(r.result[1].original, r.result[1].corrected, <<>>)]
              ELSE eng' = eng
    /\ UNCHANGED <<user_words, word_counts, last, is_replacing, undo_stack,
                   saved_clipboard, clipboard, active, layout, shift_pressed, handled>>
    /\ UNCHANGED auxVars

\* the user presses the manual hotkey (insert): the hook enqueues the key and
\* the hotkey callback RuSwitch._manual_remap runs force_check.  The keyboard
\* library runs hotkey callbacks one after another on its own thread, so a
\* second callback starts only when the first has returned from replace_word.
ManualRemap ==
    /\ pressed < MaxKeys
    /\ Len(key_queue) < MaxQueue
    /\ eng[HotkeyCtx].pc = "idle"
    /\ pressed' = pressed + 1
    /\ key_queue' = _on_key_press_fast(key_queue, "insert", FALSE)
    /\ LET r == force_check(buffer)
       IN  /\ buffer' = r.buffer
           /\ eng' = IF r.result # None
                     THEN [eng EXCEPT ![HotkeyCtx] =
                              CallCtx(r.result[1].original, r.result[1].corrected, <<>>)]
                     ELSE eng
    /\ UNCHANGED <<user_words, word_counts, last, is_replacing, undo_stack,
                   saved_clipboard, clipboard, active, layout, shift_pressed, handled>>
    /\ UNCHANGED auxVars

\* a plausible slip: no except clause around _handle_key, so that the thread
\* ends with the first error
_process_keys_untilError == handled.outcome # "raised"

\* the while True loop of _process_keys is running: its except clause logs
\* the error of _handle_key and goes on
_process_keys == TRUE

\* RuSwitch._process_keys: take one event and run _handle_key on it
HandleKey ==
    /\ _process_keys
    /\ key_queue # <<>>
    /\ key_queue' = Tail(key_queue)
    /\ \E proc \in Processes :
        LET ev == Head(key_queue)
            outcome == KeyOutcome(ev, proc)
        IN  IF outcome = "clear"
            THEN /\ buffer' = clear_buffer(buffer)
                 /\ handled' = Handled(ev, outcome, None, FALSE)
                 /\ UNCHANGED <<user_words, word_counts, document, eng>>
            ELSE IF outcome = "feed"
            THEN LET r == feed_char(buffer, Dict(user_words, word_counts), ActualChar(ev))
                 IN  /\ buffer' = r.buffer
                     /\ user_words' = r.d.uw
                     /\ word_counts' = r.d.wc
                     /\ document' = IF r.d # Dict(user_words, word_counts)
                                    THEN _save_user_data(r.d) ELSE document
                     /\ IF r.result = None
                        THEN /\ handled' = Handled(ev, outcome, None, FALSE)
                             /\ UNCHANGED eng
                        ELSE IF HasBoundaryChar(r.result[1])
                        \* Thread(target=_do_replace, args=(result,)).start()
                        THEN /\ \E t \in Threads :
                                  /\ eng[t].pc = "idle"
                                  /\ eng' = [eng EXCEPT ![t] =
                                               CallCtx(r.result[1].original,
                                                       r.result[1].corrected,
                                                       r.result[1].boundary_char)]
                             /\ handled' = Handled(ev, outcome, r.result, TRUE)
                        \* AttributeError, logged by _process_keys
                        ELSE /\ handled' = Handled(ev, "raised", r.result, FALSE)
                             /\ UNCHANGED eng
            ELSE /\ handled' = Handled(ev, outcome, None, FALSE)
                 /\ UNCHANGED <<buffer, user_words, word_counts, document, eng>>
    /\ UNCHANGED <<last, is_replacing, undo_stack, saved_clipboard, clipboard,
                   active, layout, shift_pressed, pressed, histVars>>

\* a plausible slip: the flag is not raised on entry
ReplaceBegin_flagNotSet(t) ==
    /\ eng[t].pc = "call"
    /\ eng' = [eng EXCEPT ![t].pc = "save"]
    /\ UNCHANGED <<detVars, auxVars, key_queue, is_replacing, undo_stack, saved_clipboard,
                   clipboard, active, layout, shift_pressed, handled, pressed>>

\* replace_word, line 68: self.is_replacing = True
ReplaceBegin(t) ==
    /\ eng[t].pc = "call"
    /\ is_replacing' = TRUE
    /\ eng' = [eng EXCEPT ![t].pc = "save"]
    /\ UNCHANGED <<detVars, auxVars, key_queue, undo_stack, saved_clipboard, clipboard,
                   active, layout, shift_pressed, handled, pressed>>

\* replace_word, lines 70-77: save the clipboard, count the backspaces
ReplaceSave(t) ==
    /\ eng[t].pc = "save"
    /\ saved_clipboard' = clipboard
    /\ eng' = [eng EXCEPT ![t].pc = "backspace",
                          ![t].n = total_bs(eng[t].original, eng[t].boundary_char)]
    /\ UNCHANGED <<detVars, auxVars, key_queue, is_replacing, undo_stack, clipboard,
                   active, layout, shift_pressed, handled, pressed>>

\* replace_word, lines 78-80: keyboard.send('backspace'), seen by the hook
ReplaceBackspace(t) ==
    /\ eng[t].pc = "backspace"
    /\ eng[t].n > 0
    /\ key_queue' = _on_key_press_fast(key_queue, "backspace", TRUE)
    /\ eng' = [eng EXCEPT ![t].n = @ - 1]
    /\ UNCHANGED <<detVars, auxVars, is_replacing, undo_stack, saved_clipboard, clipboard,
                   active, layout, shift_pressed, handled, pressed>>

\* replace_word, lines 82-86: put corrected + boundary_char on the clipboard
ReplaceSetClipboard(t) ==
    /\ eng[t].pc = "backspace"
    /\ eng[t].n = 0
    /\ clipboard' = Some(eng[t].corrected \o eng[t].boundary_char)
    /\ eng' = [eng EXCEPT ![t].pc = "paste"]
    /\ UNCHANGED <<detVars, auxVars, key_queue, is_replacing, undo_stack, saved_clipboard,
                   active, layout, shift_pressed, handled, pressed>>

\* replace_word, line 87: keyboard.send('ctrl+v'), seen by the hook as two keys
ReplacePaste(t) ==
    /\ eng[t].pc = "paste"
    /\ key_queue' = _on_key_press_fast(
                        _on_key_press_fast(key_queue, "ctrl", TRUE), "v", TRUE)
    /\ eng' = [eng EXCEPT ![t].pc = "restore"]
    /\ UNCHANGED <<detVars, auxVars, is_replacing, undo_stack, saved_clipboard, clipboard,
                   active, layout, shift_pressed, handled, pressed>>

\* replace_word, lines 89-101: restore the clipboard, push the UndoEntry.
\* Nothing in the application reads the timestamp (undo_last is never
\* called by main.py), so the clock stands at 0 here.
ReplaceRestore(t) ==
    /\ eng[t].pc = "restore"
    /\ clipboard' = IF saved_clipboard # None THEN saved_clipboard ELSE clipboard
    /\ undo_stack' = UndoPush(undo_stack, UndoEntry(eng[t].original, eng[t].corrected, 0))
    /\ eng' = [eng EXCEPT ![t].pc = "finally"]
    /\ UNCHANGED <<detVars, auxVars, key_queue, is_replacing, saved_clipboard,
                   active, layout, shift_pressed, handled, pressed>>

\* replace_word, lines 102-103: finally: self.is_replacing = False
ReplaceFinally(t) ==
    /\ eng[t].pc = "finally"
    /\ is_replacing' = FALSE
    /\ eng' = [eng EXCEPT ![t] = IdleCtx]
    /\ UNCHANGED <<detVars, auxVars, key_queue, undo_stack, saved_clipboard, clipboard,
                   active, layout, shift_pressed, handled, pressed>>

Next ==
    \/ \E name \in UserKeys : PressKey(name)
    \/ SwitchLayout
    \/ Toggle
    \/ ManualRemap
    \/ HandleKey
    \/ \E t \in Contexts : ReplaceBegin(t)
    \/ \E t \in Contexts : ReplaceSave(t)
    \/ \E t \in Contexts : ReplaceBackspace(t)
    \/ \E t \in Contexts : ReplaceSetClipboard(t)
    \/ \E t \in Contexts : ReplacePaste(t)
    \/ \E t \in Contexts : ReplaceRestore(t)
    \/ \E t \in Contexts : ReplaceFinally(t)

Spec == Init /\ [][Next]_vars

-----------------------------------------------------------------------------
(* Typing with the shift key and layout switches: the hook callback and the *)
(* processing thread alone, no hotkey and no tray (main.py)                 *)

\* the user presses shift: the key is down when the hook callback runs for it
ShiftDown ==
    /\ pressed < MaxKeys
    /\ Len(key_queue) < MaxQueue
    /\ ~shift_pressed
    /\ pressed' = pressed + 1
    /\ shift_pressed' = TRUE
    /\ key_queue' = Append(key_queue, KeyEvent("shift", TRUE, FALSE))
    /\ UNCHANGED <<detVars, auxVars, is_replacing, undo_stack, saved_clipboard, clipboard,
                   active, layout, eng, handled>>

\* the user releases shift: keyboard.on_press reports no key-up event
ShiftUp ==
    /\ shift_pressed
    /\ shift_pressed' = FALSE
    /\ UNCHANGED <<detVars, auxVars, key_queue, is_replacing, undo_stack, saved_clipboard,
                   clipboard, active, layout, eng, handled, pressed>>

\* keys typed: a letter, ';', '1', space and enter
TypedKeys == {"y", ";", "1", "space", "enter"}

NextKeys ==
    \/ \E name \in TypedKeys : PressKey(name)
    \/ ShiftDown
    \/ ShiftUp
    \/ SwitchLayout
    \/ HandleKey

SpecKeys == Init /\ [][NextKeys]_vars

-----------------------------------------------------------------------------
(* The processing thread under a scheduler that lets it run: typing alone  *)

NextLive ==
    \/ \E name \in UserKeys : PressKey(name)
    \/ HandleKey

\* the daemon thread of _process_keys blocks in Queue.get and is woken for
\* every event put
SpecLive == Init /\ [][NextLive]_vars /\ WF_vars(HandleKey)

-----------------------------------------------------------------------------
(* Properties of the detector calls (checked under SpecDet) *)

IsBoundaryFeed == last.op = "feed_char" /\ last.char \in _WORD_BOUNDARIES
LastDict == Dict(last.uw, last.wc)
OwnLanguage(word) == IF detect_script(word) = "latin" THEN "en" ELSE "ru"
OtherLanguage(word) == IF detect_script(word) = "latin" THEN "ru" ELSE "en"

\* C3: a correction returned by feed_char has an original that check rejects
\* in the language of its own script and a corrected word that check accepts
\* in the other language, on the dictionary as it was at the decision; a
\* word known as typed, or unknown both as typed and remapped, yields none.
C3_CorrectionOnlyOnRemapHit ==
    IsBoundaryFeed =>
        /\ last.result # None =>
              LET r == last.result[1]
              IN  /\ detect_script(r.original) \in {"latin", "cyrillic"}
                  /\ ~check(LastDict, r.original, OwnLanguage(r.original))
                  /\ check(LastDict, r.corrected, OtherLanguage(r.original))
        /\ check(LastDict, last.buf, OwnLanguage(last.buf)) => last.result = None
        /\ ( /\ ~check(LastDict, last.buf, "en") /\ ~check(LastDict, last.buf, "ru")
             /\ ~check(LastDict, remap_word(last.buf, "en_to_ru"), "ru")
             /\ ~check(LastDict, remap_word(last.buf, "ru_to_en"), "en") )
           => last.result = None

\* a word known as typed whose remap is known too was flushed: no correction
C3_Witness ==
    /\ IsBoundaryFeed
    /\ detect_script(last.buf) = "latin"
    /\ check(LastDict, last.buf, "en")
    /\ check(LastDict, remap_word(last.buf, "en_to_ru"), "ru")
    /\ last.result = None

\* C4: a flushed word that is not skipped, is purely Latin, is rejected by
\* check(word, en) while its En->Ru remap is accepted by check(., ru) gets a
\* correction; the same for a purely Cyrillic word with the languages swapped.
C4_DetectionComplete ==
    IsBoundaryFeed /\ last.buf # <<>> /\ ~_should_skip(last.buf) =>
        /\ ( /\ detect_script(last.buf) = "latin"
             /\ ~check(LastDict, last.buf, "en")
             /\ check(LastDict, remap_word(last.buf, "en_to_ru"), "ru") )
           => /\ last.result # None
              /\ last.result[1].original = last.buf
              /\ last.result[1].direction = "en_to_ru"
        /\ ( /\ detect_script(last.buf) = "cyrillic"
             /\ ~check(LastDict, last.buf, "ru")
             /\ check(LastDict, remap_word(last.buf, "ru_to_en"), "en") )
           => /\ last.result # None
              /\ last.result[1].original = last.buf
              /\ last.result[1].direction = "ru_to_en"

\* the Cyrillic word "ин" was flushed and corrected to "by"
C4_Witness ==
    /\ IsBoundaryFeed
    /\ last.buf = <<1080, 1085>>
    /\ last.result # None
    /\ last.result[1].corrected = <<98, 121>>

\* C5: a CorrectionResult of feed_char or force_check has original equal to
\* the buffer at the flush, corrected equal to remap(original, direction), and
\* direction en_to_ru exactly for a Latin original, ru_to_en exactly for a
\* Cyrillic one.
C5_ResultShape ==
    (last.op \in {"feed_char", "force_check"} /\ last.result # None) =>
        LET r == last.result[1]
        IN  /\ r.original = last.buf
            /\ r.direction \in {"en_to_ru", "ru_to_en"}
            /\ r.corrected = remap_word(r.original, r.direction)
            /\ r.direction = "en_to_ru" <=> detect_script(r.original) = "latin"
            /\ r.direction = "ru_to_en" <=> detect_script(r.original) = "cyrillic"

\* force_check turned the mixed-case Latin buffer "Yb" into "Ни"
C5_Witness ==
    /\ last.op = "force_check"
    /\ last.buf = <<89, 98>>
    /\ last.result = Some(CorrectionResult(<<89, 98>>, <<1053, 1080>>, "en_to_ru"))

\* C6: a CorrectionResult returned by feed_char carries, as boundary_char,
\* the boundary character whose feeding triggered the flush.
C6_BoundaryCharCarried ==
    (IsBoundaryFeed /\ last.result # None) =>
        /\ "boundary_char" \in DOMAIN last.result[1]
        /\ last.result[1].boundary_char = <<last.char>>

\* C8: force_check decides by script alone: Latin gives the En->Ru remap,
\* Cyrillic the Ru->En remap, Mixed, Other and the empty buffer give none;
\* the user sets and the counters are left as they were.
C8_ForceCheckBypassesDictionary ==
    last.op = "force_check" =>
        /\ user_words = last.uw
        /\ word_counts = last.wc
        /\ (last.buf # <<>> /\ detect_script(last.buf) = "latin") =>
              last.result = Some(CorrectionResult(
                  last.buf, remap_word(last.buf, "en_to_ru"), "en_to_ru"))
        /\ (last.buf # <<>> /\ detect_script(last.buf) = "cyrillic") =>
              last.result = Some(CorrectionResult(
                  last.buf, remap_word(last.buf, "ru_to_en"), "ru_to_en"))
        /\ (last.buf = <<>> \/ detect_script(last.buf) \in {"mixed", "other"}) =>
              last.result = None

\* force_check remapped the Cyrillic buffer "ии", which no dictionary knows
C8_Witness ==
    /\ last.op = "force_check"
    /\ last.buf = <<1080, 1080>>
    /\ ~check(LastDict, remap_word(last.buf, "ru_to_en"), "en")
    /\ last.result # None
    /\ last.result[1].corrected = <<98, 98>>

C10_BoundaryFlushes ==
    IsBoundaryFeed =>
        /\ buffer = <<>>
        /\ last.result = _analyze_buffer(last.buf, LastDict).result
        /\ last.buf = <<>> => last.result = None

\* a boundary flushed the Latin word "yb" and returned its correction "ни"
C10_Witness ==
    /\ IsBoundaryFeed
    /\ last.buf = <<121, 98>>
    /\ buffer = <<>>
    /\ last.result # None
    /\ last.result[1].corrected = <<1085, 1080>>

\* the language and dictionary key under which the flush recorded in last
\* classified its word: the word as typed when check accepts it, else the
\* remapped word when check accepts that, else nothing
Classified ==
    LET word == last.buf
        remapped == remap_word(word, IF detect_script(word) = "latin"
                                     THEN "en_to_ru" ELSE "ru_to_en")
    IN  IF check(LastDict, word, OwnLanguage(word))
        THEN <<OwnLanguage(word), Lower(word)>>
        ELSE IF check(LastDict, remapped, OtherLanguage(word))
        THEN <<OtherLanguage(word), Lower(remapped)>>
        ELSE <<>>

\* C25: a flush that classifies its word (the word as typed, or remapped, is
\* accepted by check) grows the learning state: the counter of the accepted
\* word increases or the word enters the user set of its language
C25_ClassificationLearns ==
    (IsBoundaryFeed /\ last.queries > 0 /\ Classified # <<>>) =>
        \/ CountGet(word_counts, Classified) > CountGet(last.wc, Classified)
        \/ Classified[2] \in user_words[Classified[1]] \ last.uw[Classified[1]]

\* the cases of the skip rule for a flushed word
SkipCase(word) ==
    \/ Len(word) < min_word_length
    \/ (\E i \in 1..Len(word) : IsAlpha(word[i]) /\ word[i] \in 1024..1279)
       /\ (\E i \in 1..Len(word) : IsAlpha(word[i]) /\ word[i] \notin 1024..1279)
    \/ \E i \in 1..Len(word) : word[i] \in 48..57
    \/ _SKIP_PATTERNS(word)

\* C26: a flush of a word that is shorter than min_word_length, of mixed
\* script, holds a digit or matches a skip pattern returns none, makes no
\* call on the dictionary and leaves the user sets, the counters and the
\* document as they were
C26_SkippedWordUntouched ==
    (IsBoundaryFeed /\ SkipCase(last.buf)) =>
        /\ last.result = None
        /\ last.queries = 0
        /\ user_words = last.uw
        /\ word_counts = last.wc
        /\ document = last.doc

\* the one-letter word "b" was flushed without a call on the dictionary
C26_Witness ==
    /\ IsBoundaryFeed
    /\ last.buf = <<98>>
    /\ last.result = None
    /\ last.queries = 0

\* C34: feeding a character that is no boundary returns none, appends that
\* one character at the end of the buffer, makes no call on the dictionary
\* and leaves the user sets, the counters and the document as they were
C34_AppendOnly ==
    (last.op = "feed_char" /\ last.char \notin _WORD_BOUNDARIES) =>
        /\ last.result = None
        /\ buffer = Append(last.buf, last.char)
        /\ last.queries = 0
        /\ user_words = last.uw
        /\ word_counts = last.wc
        /\ document = last.doc

\* the Cyrillic letter U+0438 was fed after "yb" while "yb" was a user word
C34_Witness ==
    /\ last.op = "feed_char"
    /\ last.char = 1080
    /\ last.buf = <<121, 98>>
    /\ buffer = <<121, 98, 1080>>
    /\ <<121, 98>> \in user_words["en"]

-----------------------------------------------------------------------------
(* force_check statement by statement: the hotkey callback runs on the thread
   of the keyboard library while _process_keys runs _handle_key on its own
   thread, and LayoutDetector takes no lock *)

\* force_check, lines 73-84: the buffer is tested and joined into word, the
\* result is built from word; a return None leaves the buffer alone
ForceRead ==
    /\ pressed < MaxKeys
    /\ Len(key_queue) < MaxQueue
    /\ eng[HotkeyCtx].pc = "idle"
    /\ pressed' = pressed + 1
    /\ key_queue' = _on_key_press_fast(key_queue, "insert", FALSE)
    /\ LET r == force_check(buffer)
       IN  eng' = IF r.result # None
                  THEN [eng EXCEPT ![HotkeyCtx] =
                           [CallCtx(r.result[1].original, r.result[1].corrected, <<>>)
                               EXCEPT !.pc = "force"]]
                  ELSE eng
    /\ UNCHANGED <<buffer, user_words, word_counts, last, is_replacing, undo_stack,
                   saved_clipboard, clipboard, active, layout, shift_pressed, handled>>
    /\ UNCHANGED auxVars

\* force_check, lines 85-86: self._buffer.clear(); return result, and
\* _manual_remap goes on to replace_word
ForceClear ==
    /\ eng[HotkeyCtx].pc = "force"
    /\ buffer' = <<>>
    /\ eng' = [eng EXCEPT ![HotkeyCtx].pc = "call"]
    /\ UNCHANGED <<user_words, word_counts, last, key_queue, is_replacing, undo_stack,
                   saved_clipboard, clipboard, active, layout, shift_pressed, handled,
                   pressed>>
    /\ UNCHANGED auxVars

NextRace ==
    \/ \E name \in UserKeys : PressKey(name)
    \/ ForceRead
    \/ ForceClear
    \/ HandleKey
    \/ \E t \in Contexts : ReplaceBegin(t)
    \/ \E t \in Contexts : ReplaceSave(t)
    \/ \E t \in Contexts : ReplaceBackspace(t)
    \/ \E t \in Contexts : ReplaceSetClipboard(t)
    \/ \E t \in Contexts : ReplacePaste(t)
    \/ \E t \in Contexts : ReplaceRestore(t)
    \/ \E t \in Contexts : ReplaceFinally(t)

SpecRace == Init /\ [][NextRace]_vars

-----------------------------------------------------------------------------
(* Properties of the application (checked under Spec) *)

InFlightSet == {t \in Contexts : InFlight(t)}

\* C1: no key event produced by the engine's own synthetic output appends to
\* the word buffer, clears it or triggers an analysis: every such event is
\* discarded by _handle_key.
C1_SyntheticEventsDiscarded ==
    handled.ev.synthetic => handled.outcome \notin {"clear", "feed", "raised"}

C7_DecisionReachesEngine ==
    handled.result # None => handled.spawned

\* C27: the processing thread takes the events one at a time from the head
\* of the queue while the hook callback adds them at its tail, so that they
\* are handled in the order of their enqueueing, none skipped, repeated or
\* batched; the word buffer grows only by the character of the event just
\* handled, at its end
C27_KeysHandledInOrder ==
    [][ \/ /\ key_queue' = key_queue
           /\ handled' = handled
        \/ /\ Len(key_queue') > Len(key_queue)
           /\ SubSeq(key_queue', 1, Len(key_queue)) = key_queue
           /\ handled' = handled
           /\ buffer' \in {buffer, <<>>}
        \/ /\ key_queue # <<>>
           /\ key_queue' = Tail(key_queue)
           /\ handled'.ev = Head(key_queue)
           /\ \/ buffer' \in {buffer, <<>>}
              \/ /\ Head(key_queue).name \in DOMAIN KeyChar
                 /\ buffer' = Append(buffer, ActualChar(Head(key_queue)))
      ]_vars

\* "y" then "b" were handled, in that order, while a third key waits
C27_Witness ==
    /\ handled.outcome = "feed"
    /\ handled.ev.name = "b"
    /\ buffer \in {<<121, 98>>, <<1085, 1080>>}
    /\ key_queue # <<>>

\* C28: the character fed to the detector for a key, which the buffer then
\* ends with, is the translation of the key under the shift state and the
\* layout that were in effect when the key went down
C28_NormalizedAsPressed ==
    (handled.outcome = "feed" /\ handled.ev.name \in DOMAIN KeyChar) =>
        /\ buffer # <<>>
        /\ buffer[Len(buffer)] = _translate_key(KeyChar[handled.ev.name],
                                                handled.ev.at_layout,
                                                handled.ev.shift_held)

IsTextOf(clip, entry) ==
    /\ clip # None
    /\ \/ clip[1] = entry.corrected
       \/ \E ch \in _WORD_BOUNDARIES : clip[1] = Append(entry.corrected, ch)

\* C31: the clipboard sequence of a replace_word is not interleaved with the
\* sequence of another operation, so what an operation is about to restore is
\* never the replacement text of another operation
C31_RestoresOwnSave ==
    \A t \in Contexts :
        eng[t].pc = "restore" =>
            /\ \A u \in Contexts \ {t} : eng[u].pc \notin {"backspace", "paste", "restore"}
            /\ clipboard = Some(eng[t].corrected \o eng[t].boundary_char)
            /\ \A i \in 1..Len(undo_stack) : ~IsTextOf(saved_clipboard, undo_stack[i])

\* C35: a force_check is not interleaved with a feed_char or clear_buffer:
\* when it clears the buffer and returns, the buffer is still the word it
\* read, which is the original of its correction
C35_ForceCheckAtomic ==
    [][ (eng[HotkeyCtx].pc = "force" /\ eng'[HotkeyCtx].pc = "call")
            => buffer = eng'[HotkeyCtx].original ]_vars

\* C36: the calls of the DictionaryManager behave as if executed one at a
\* time: once every thread has returned from its call, the persisted document
\* is the document of the state in memory
C36_DocumentMatchesMemory ==
    ((\A t \in DictThreads : calls[t].pc = "idle") /\ document # NoDocument)
    => document = _save_user_data(Dict(user_words, word_counts))

\* C33: when _handle_key gets as far as the detector with a navigation or
\* editing key or with a modifier key, the buffer is empty afterwards, no
\* correction is produced, no replacement is started and the dictionary and
\* its document are as they were
C33_ControlKeyResets ==
    [][ ( /\ key_queue # <<>>
          /\ key_queue' = Tail(key_queue)
          /\ Head(key_queue).name \in ModifierKeys \cup NavigationKeys
          /\ handled'.outcome \notin {"suppressed", "excluded"} )
        => /\ buffer' = <<>>
           /\ handled'.result = None
           /\ ~handled'.spawned
           /\ eng' = eng
           /\ user_words' = user_words
           /\ word_counts' = word_counts
           /\ document' = document
      ]_vars

\* a backspace sent by a manual replacement got as far as the detector, after
\* three actions of the user, and the buffer is empty
C33_Witness ==
    /\ handled.ev.name = "backspace"
    /\ handled.outcome = "clear"
    /\ buffer = <<>>
    /\ pressed >= 3

\* C37: every event in the queue is taken out and handled in the end, also
\* when the handling of an earlier event raised an error
C37_EveryEventHandled ==
    (key_queue # <<>>) ~> (key_queue = <<>>)

\* the handling of an event has raised an error and another event waits
C37_Witness ==
    /\ handled.outcome = "raised"
    /\ key_queue # <<>>

\* the two-stage transform of a key: shift first (a letter to upper case, any
\* other key through the shift table when it is there), then the forward
\* keymap table under the ru layout alone; space and enter are ' ' and newline
Normalized(name, lay, shift_held) ==
    IF name = "space" THEN 32
    ELSE IF name = "enter" THEN 10
    ELSE LET key == KeyChar[name]
             shifted == IF ~shift_held THEN key
                        ELSE IF IsAlpha(key) THEN UpperCh(key)
                        ELSE IF key \in DOMAIN _SHIFT_MAP THEN _SHIFT_MAP[key]
                        ELSE key
         IN  IF lay = "ru" /\ shifted \in DOMAIN EN_TO_RU THEN EN_TO_RU[shifted]
             ELSE shifted

\* C32: the character _handle_key feeds for a key is the two-stage transform
\* of the key under the shift state of the event and the layout read
C32_TwoStageNormalization ==
    handled.outcome \in {"feed", "raised"} =>
        handled.char = Normalized(handled.ev.name, handled.lay, handled.ev.shift_held)

\* ';' pressed with shift under the ru layout was fed as U+0416
C32_Witness ==
    /\ handled.outcome = "feed"
    /\ handled.ev.name = ";"
    /\ handled.ev.shift_held
    /\ handled.lay = "ru"
    /\ handled.char = 1046

\* C39: the original of a correction that feed_char returns for a boundary
\* key is what the user typed into the application between the boundary or
\* reset key before and that key
C39_OriginalIsWhatWasTyped ==
    handled.result # None => handled.result[1].original = handled.ev.span

-----------------------------------------------------------------------------
(* Properties of the dictionary manager (SpecDict, SpecLoad) *)

Upper(word) == [i \in 1..Len(word) |-> UpperCh(word[i])]

Base(language) == IF language = "ru" THEN _ru_words ELSE _en_words

NowDict == Dict(user_words, word_counts)

\* the counter key of the call recorded in dlast
LastKey == <<dlast.language, Lower(dlast.word)>>

\* the user set and the counters of the languages other than the one of the
\* call recorded in dlast are as they were before the call
OtherLanguagesUntouched ==
    /\ \A l \in Languages \ {dlast.language} : user_words[l] = dlast.uw[l]
    /\ \A k \in DOMAIN dlast.wc \cup DOMAIN word_counts :
           k[1] # dlast.language =>
               /\ k \in DOMAIN dlast.wc
               /\ k \in DOMAIN word_counts
               /\ word_counts[k] = dlast.wc[k]

\* C11: in a run of successive record_word calls for a word that was unknown
\* and had no counter, each of the first threshold-1 calls returns false and
\* leaves check false, and the threshold-th call returns true and makes
\* check true
C11_LearnedAtThreshold ==
    (dlast.op = "record_word" /\ dlast.streak >= 1) =>
        /\ dlast.result = (dlast.streak = threshold)
        /\ check(NowDict, dlast.word, dlast.language) = (dlast.streak = threshold)

\* the third of three calls has just learned a word
C11_Witness ==
    /\ dlast.op = "record_word"
    /\ threshold = 3
    /\ dlast.streak = 3
    /\ dlast.result

C13_ExplicitEdits ==
    /\ dlast.op = "add_word" =>
           /\ check(NowDict, dlast.word, dlast.language)
           /\ check(NowDict, Lower(dlast.word), dlast.language)
           /\ check(NowDict, Upper(dlast.word), dlast.language)
           /\ LastKey \notin DOMAIN word_counts
           /\ OtherLanguagesUntouched
    /\ dlast.op = "remove_word" =>
           /\ dlast.word \notin user_words[dlast.language]
           /\ Lower(dlast.word) \notin user_words[dlast.language]
           /\ check(NowDict, dlast.word, dlast.language)
                  => Lower(dlast.word) \in Base(dlast.language)
           /\ OtherLanguagesUntouched

\* remove_word("Yb") has just removed the user word "yb" while the other
\* language holds a counter
C13_Witness ==
    /\ dlast.op = "remove_word"
    /\ dlast.word # Lower(dlast.word)
    /\ Lower(dlast.word) \in dlast.uw[dlast.language]
    /\ \E k \in DOMAIN word_counts : k[1] # dlast.language

\* C14: after add_word, remove_word and every record_word that changed the
\* state, loading the persisted document gives exactly the user sets and the
\* counters held in memory
C14_WriteThrough ==
    (\/ dlast.op \in {"add_word", "remove_word"}
     \/ (dlast.op = "record_word" /\ Dict(dlast.uw, dlast.wc) # NowDict))
    => LET r == _load_user_data(document, NewDict)
       IN  /\ r.raised = ""
           /\ r.counts_is_dict
           /\ r.d.uw = user_words
           /\ r.d.wc = word_counts

\* record_word has just raised a counter while both user sets hold a word
C14_Witness ==
    /\ dlast.op = "record_word"
    /\ ~dlast.result
    /\ LastKey \in DOMAIN word_counts
    /\ \A l \in Languages : user_words[l] # {}

\* a user document as _save_user_data writes it
WellFormed(doc) ==
    /\ doc.kind = "object"
    /\ doc.ru.t \in {"absent", "list"}
    /\ doc.en.t \in {"absent", "list"}
    /\ doc.counts.t \in {"absent", "object"}

\* C15: loading a missing or malformed document raises nothing and leaves
\* both user sets and the counters empty
C15_MalformedLoadFallsBack ==
    (dlast.op = "load" /\ ~WellFormed(document)) =>
        /\ dlast.raised = ""
        /\ dlast.counts_is_dict
        /\ user_words = NewDict.uw
        /\ word_counts = NewDict.wc

\* C40: with counters that started empty and a threshold that stays as it
\* is, every stored counter is at least 1 and at most threshold - 1, and
\* its (language, word) is rejected by check
C40_CounterBound ==
    \A k \in DOMAIN word_counts :
        /\ word_counts[k] \in 1..(threshold - 1)
        /\ ~check(NowDict, k[2], k[1])

\* under threshold 3 a counter stands at 2 after a record_word call
C40_Witness ==
    /\ threshold = 3
    /\ dlast.op = "record_word"
    /\ LastKey \in DOMAIN word_counts
    /\ word_counts[LastKey] = 2

-----------------------------------------------------------------------------
(* Properties of the replacement engine (SpecEng) *)

\* the whole output of a replacement of original by corrected
FullOutput(deletes, text) == Deletes(deletes) \o <<Insert(text)>>

IsPrefix(s, t) == Len(s) <= Len(t) /\ s = SubSeq(t, 1, Len(s))

\* the entry on top of the ring before the call recorded in elast
PriorTop == elast.stack[Len(elast.stack)]

\* C16: the undo ring holds at most 20 entries; a successful replace_word on
\* a full ring drops the oldest entry and keeps the other 19 in order,
\* followed by the new one
C16_UndoRingBounded ==
    /\ Len(undo_stack) <= 20
    /\ (elast.op = "replace_word" /\ elast.ret = "true" /\ Len(elast.stack) = 20) =>
           /\ Len(undo_stack) = 20
           /\ SubSeq(undo_stack, 1, 19) = SubSeq(elast.stack, 2, 20)
           /\ undo_stack[20] = UndoEntry(elast.original, elast.corrected, elast.at)

\* a replace_word succeeded on a full ring whose oldest entry differs from
\* its newest
C16_Witness ==
    /\ elast.op = "replace_word"
    /\ elast.ret = "true"
    /\ Len(elast.stack) = 20
    /\ elast.stack[1] # elast.stack[20]

\* C17: undo_last on an empty ring, or when the newest entry is older than
\* 30 seconds, returns false, emits nothing, never sets is_replacing and
\* leaves the ring unchanged
C17_UndoRefused ==
    (/\ elast.op = "undo_last"
     /\ (elast.stack = <<>> \/ elast.at - PriorTop.timestamp > 30))
    => /\ elast.ret = "false"
       /\ elast.out = <<>>
       /\ ~elast.began
       /\ ~is_replacing
       /\ undo_stack = elast.stack

\* undo_last was called 31 seconds after the replace_word it would undo
C17_Witness ==
    /\ elast.op = "undo_last"
    /\ elast.stack # <<>>
    /\ elast.at - PriorTop.timestamp > 30
    /\ elast.ret = "false"

\* C18: undo_last within the window pops the newest entry, deletes
\* len(corrected) characters plus the boundary character of that correction,
\* inserts original + boundary_char and returns true
C18_UndoRestoresBoundary ==
    (/\ elast.op = "undo_last"
     /\ elast.ret = "true"
     /\ elast.popped_boundary # None)
    => LET b == elast.popped_boundary[1]
       IN  /\ undo_stack = SubSeq(elast.stack, 1, Len(elast.stack) - 1)
           /\ elast.original = PriorTop.original
           /\ elast.out = FullOutput(Len(elast.corrected) + Len(b), elast.original \o b)

C20_FlagClearedOnExit ==
    elast.op \in {"replace_word", "undo_last"} => ~is_replacing

\* an output step of undo_last has failed after is_replacing was set
C20_Witness ==
    /\ elast.op = "undo_last"
    /\ elast.began
    /\ elast.ret = "raised"
    /\ ~is_replacing

\* the call recorded in elast set is_replacing and did not get as far as its
\* insert: one of its output steps failed
OutputFailed ==
    /\ elast.began
    /\ (elast.out = <<>> \/ elast.out[Len(elast.out)].op # "insert")

\* C21: a replace_word or undo_last in which a delete or insert step failed
\* returns false; no error leaves the call
C21_FailureReturnsFalse ==
    (elast.op \in {"replace_word", "undo_last"} /\ OutputFailed) => elast.ret = "false"

\* C30: after a replace_word or undo_last that ran to its end the clipboard
\* holds what it held before the call
C30_ClipboardPreserved ==
    (elast.op \in {"replace_word", "undo_last"} /\ elast.ret = "true")
    => clipboard = elast.clip

-----------------------------------------------------------------------------
(* Properties of keymap.py (SpecKeymap) *)

AllIn(w, chars) == \A i \in 1..Len(w) : w[i] \in chars

\* C22: a word made of keys of the En->Ru table comes back unchanged from
\* En->Ru followed by Ru->En, and a word made of keys of the Ru->En table
\* from Ru->En followed by En->Ru
C22_RemapRoundTrip ==
    /\ (klast.directions = <<"en_to_ru", "ru_to_en">> /\ AllIn(klast.origin, DOMAIN EN_TO_RU))
           => kword = klast.origin
    /\ (klast.directions = <<"ru_to_en", "en_to_ru">> /\ AllIn(klast.origin, DOMAIN RU_TO_EN))
           => kword = klast.origin

\* the word "y." went to Cyrillic and back
C22_Witness ==
    /\ klast.origin = <<121, 46>>
    /\ klast.directions = <<"en_to_ru", "ru_to_en">>
    /\ kword = <<121, 46>>

\* C23: the reverse table maps b to a for every pair (a, b) of the forward
\* table, no two forward keys share a value, every reverse entry comes
\* from a forward pair, and the reverse entry of a character that a forward
\* remap produced is the character it was produced from
C23_KeymapBijection ==
    /\ klast.directions = <<"en_to_ru">> =>
           \A i \in 1..Len(kword) :
               klast.origin[i] \in DOMAIN EN_TO_RU =>
                   /\ kword[i] \in DOMAIN RU_TO_EN
                   /\ RU_TO_EN[kword[i]] = klast.origin[i]
    /\ \A a \in DOMAIN EN_TO_RU :
           /\ EN_TO_RU[a] \in DOMAIN RU_TO_EN
           /\ RU_TO_EN[EN_TO_RU[a]] = a
    /\ \A a, c \in DOMAIN EN_TO_RU : a # c => EN_TO_RU[a] # EN_TO_RU[c]
    /\ \A b \in DOMAIN RU_TO_EN :
           /\ RU_TO_EN[b] \in DOMAIN EN_TO_RU
           /\ EN_TO_RU[RU_TO_EN[b]] = b

\* '.', a key of both tables, was remapped forward to U+044E and '/' forward to '.'
C23_Witness ==
    /\ klast.directions = <<"en_to_ru">>
    /\ \/ (klast.origin = <<46>> /\ kword = <<1102>>)
       \/ (klast.origin = <<47>> /\ kword = <<46>>)

\* letters of the Latin script and of the Cyrillic script among the
\* characters explored
IsLatinLetter(ch) == ch \in 65..90 \/ ch \in 97..122 \/ ch \in (192..255) \ {215, 247}
IsCyrillicLetter(ch) == IsAlpha(ch) /\ ch \in 1024..1327

\* C24: detect_script returns mixed exactly when the word has a Latin and a
\* Cyrillic letter, other exactly when it has no letter, and
\* otherwise latin or cyrillic after the one script present
C24_ScriptByAlphabet ==
    klast.script # "" =>
        LET has_latin == \E i \in 1..Len(kword) : IsLatinLetter(kword[i])
            has_cyrillic == \E i \in 1..Len(kword) : IsCyrillicLetter(kword[i])
            has_letter == \E i \in 1..Len(kword) : IsAlpha(kword[i])
        IN  /\ klast.script \in {"latin", "cyrillic", "mixed", "other"}
            /\ (klast.script = "mixed") <=> (has_latin /\ has_cyrillic)
            /\ (klast.script = "other") <=> ~has_letter
            /\ klast.script = "latin" => (has_latin /\ ~has_cyrillic)
            /\ klast.script = "cyrillic" => (has_cyrillic /\ ~has_latin)

\* C38: an undo_last that returns true right after a replace_word that
\* returned true leaves the text of the application ending in
\* original + boundary_char, as it was before the replace_word
C38_ReplaceUndoRoundTrip ==
    (elast.op = "undo_last" /\ elast.ret = "true" /\ elast.follows) =>
        elast.text = elast.original \o elast.popped_boundary[1]

====
